---- MODULE Spec2Model ----
(***************************************************************************)
(* The rule-based dialog policy of modules/policy/policy_handcrafted.py    *)
(* (class HandcraftedPolicy) as a state machine: one action per call of    *)
(* forward, the policy's fields current_suggestions and s_index and the    *)
(* belief state's system memory carried across turns.                      *)
(***************************************************************************)
EXTENDS Integers, Sequences, FiniteSets, TLC

\* ------------------------------------------------------------------------
\* Bounds of the model
\* ------------------------------------------------------------------------

\* calls of forward in one dialog
MaxTurn == 4

\* user acts in one turn
MaxActs == 3

\* rows of a search result handed to the Slot Selector
MaxRows == 4

\* turns that build the Suggestion List and the system memory before the
\* turn observed; less than MaxTurn
SettleTurns == 2

\* ------------------------------------------------------------------------
\* Values
\* ------------------------------------------------------------------------

\* Python's None
None == "None"

\* the sentinel values of a belief distribution
NONE == "**NONE**"

DONTCARE == "dontcare"

\* ------------------------------------------------------------------------
\* Sequence helpers
\* ------------------------------------------------------------------------

Range(s) == {s[i] : i \in DOMAIN s}

MinOf(S) == CHOOSE x \in S : \A y \in S : x <= y

\* list.remove(x): drops the first occurrence of x
Remove(lst, x) ==
    LET i == MinOf({j \in DOMAIN lst : lst[j] = x})
    IN  SubSeq(lst, 1, i - 1) \o SubSeq(lst, i + 1, Len(lst))

\* ------------------------------------------------------------------------
\* The domain (utils.domain.jsonlookupdomain.JSONLookupDomain): a table of
\* entities, its primary key, the slots the system may ask for and their
\* possible values.
\* ------------------------------------------------------------------------

\* primary keys of the domains a policy may be built for
PrimaryKeys == {"name", "id"}

get_system_requestable_slots == <<"semester", "instructor", "lang", "level">>

get_possible_values(slot) ==
    CASE slot = "semester" -> <<"winter", "summer">>
      [] slot = "lang" -> <<"en", "de">>
      [] slot = "instructor" -> <<"i1", "i2", "i3">>
      [] slot = "level" -> <<"a", "b", "c">>

\* the columns of the table, in the order of the keys of a row
Columns(dk) == <<dk, "semester", "instructor", "lang", "level">>

Row(dk, e, s, i, l, v) ==
    (dk :> e) @@ ("semester" :> s) @@ ("instructor" :> i) @@ ("lang" :> l)
    @@ ("level" :> v)

Table(dk) ==
    << Row(dk, "e1", "winter", "i1", "en", "a"),
       Row(dk, "e2", "winter", "i2", "en", "b"),
       Row(dk, "e3", "winter", "i3", "de", "b"),
       Row(dk, "e4", "winter", "i1", "de", "b"),
       Row(dk, "e5", "winter", "i2", "en", "b"),
       Row(dk, "e6", "summer", "i3", "de", "b") >>

\* constraints: a dict, here the sequence of its items [slot, val] in
\* insertion order
Matches(row, constraints) ==
    \A k \in DOMAIN constraints :
        /\ constraints[k].slot \in DOMAIN row
        /\ row[constraints[k].slot] = constraints[k].val

find_entities(dk, constraints) ==
    SelectSeq(Table(dk), LAMBDA row : Matches(row, constraints))

\* the rows named entity_id, restricted to the requested slots (every
\* column when no slot is requested)
find_info_about_entity(dk, entity_id, requested_slots) ==
    LET cols == IF requested_slots = <<>>
                THEN Range(Columns(dk))
                ELSE Range(requested_slots) \cap Range(Columns(dk))
        hits == SelectSeq(Table(dk), LAMBDA row : row[dk] = entity_id)
    IN  [k \in DOMAIN hits |-> [c \in cols |-> hits[k][c]]]

\* the keys of a row in their order
RowKeys(dk, row) == SelectSeq(Columns(dk), LAMBDA c : c \in DOMAIN row)

\* ------------------------------------------------------------------------
\* SysAct (utils.sysact): a type and an ordered mapping slot -> values
\* ------------------------------------------------------------------------

SysAct == [type |-> None, slot_values |-> <<>>]

HasSlot(sys_act, slot) ==
    \E k \in DOMAIN sys_act.slot_values : sys_act.slot_values[k].slot = slot

add_value(sys_act, slot, value) ==
    LET sv    == sys_act.slot_values
        added == IF HasSlot(sys_act, slot)
                 THEN sv
                 ELSE Append(sv, [slot |-> slot, values |-> <<>>])
    IN  [sys_act EXCEPT !.slot_values =
            [k \in DOMAIN added |->
                IF added[k].slot = slot /\ value # None
                THEN [added[k] EXCEPT !.values = Append(@, value)]
                ELSE added[k]]]

get_values(sys_act, slot) ==
    IF HasSlot(sys_act, slot)
    THEN LET k == CHOOSE j \in DOMAIN sys_act.slot_values :
                      sys_act.slot_values[j].slot = slot
         IN  sys_act.slot_values[k].values
    ELSE <<>>

WithType(sys_act, t) == [sys_act EXCEPT !.type = t]

\* ------------------------------------------------------------------------
\* Belief state: beliefs maps a slot to a distribution, the sequence of its
\* items [val, p] in iteration order; p is 0 or a positive probability.
\* ------------------------------------------------------------------------

\* the slots of beliefs in iteration order
BeliefSlots(dk) ==
    <<"requested", "method", dk, "semester", "instructor", "lang", "level">>

\* the values of a distribution with probability > 0.0, in order
Active(dist) ==
    LET on == SelectSeq(dist, LAMBDA item : item.p > 0)
    IN  [k \in DOMAIN on |-> on[k].val]

\* the last element of vals outside skip, or dflt
LastNotIn(vals, skip, dflt) ==
    LET keep == SelectSeq(vals, LAMBDA v : v \notin skip)
    IN  IF keep = <<>> THEN dflt ELSE keep[Len(keep)]

_get_method(beliefs) == LastNotIn(Active(beliefs["method"]), {}, None)

_get_requested_slots(beliefs) ==
    SelectSeq(Active(beliefs["requested"]), LAMBDA r : r # NONE)

non_applicable(dk) ==
    {"requested", "discourseAct", "method", "lastInformedPrimKeyVal", dk}

\* _get_constraints(belief_state)[0]
Constraints(dk, beliefs) ==
    LET slots == SelectSeq(BeliefSlots(dk), LAMBDA s :
                     /\ s \notin non_applicable(dk)
                     /\ LastNotIn(Active(beliefs[s]), {DONTCARE, NONE}, None) # None)
    IN  [k \in DOMAIN slots |->
            [slot |-> slots[k],
             val  |-> LastNotIn(Active(beliefs[slots[k]]), {DONTCARE, NONE}, None)]]

\* _get_constraints(belief_state)[1]
Dontcare(dk, beliefs) ==
    SelectSeq(BeliefSlots(dk), LAMBDA s :
        /\ s \notin non_applicable(dk)
        /\ DONTCARE \in Range(Active(beliefs[s])))

ConstrainedSlots(dk, beliefs) ==
    {Constraints(dk, beliefs)[k].slot : k \in DOMAIN Constraints(dk, beliefs)}

_get_open_slot(dk, beliefs) ==
    LET open == SelectSeq(get_system_requestable_slots,
                          LAMBDA s : s \notin ConstrainedSlots(dk, beliefs))
    IN  IF open = <<>> THEN None ELSE open[1]

\* self.current_suggestions[self.s_index] raises IndexError
IndexFails(current_suggestions, s_index) ==
    \/ s_index >= Len(current_suggestions)
    \/ s_index < 0 - Len(current_suggestions)

\* Python's list indexing, negative indices counted from the end
At(current_suggestions, s_index) ==
    IF s_index >= 0
    THEN current_suggestions[s_index + 1]
    ELSE current_suggestions[Len(current_suggestions) + s_index + 1]

\* the name given by the user, None if there is none
UserName(dk, beliefs) == LastNotIn(Active(beliefs[dk]), {NONE}, None)

\* _get_name: [name, error]
_get_name(dk, beliefs, current_suggestions, s_index) ==
    IF _get_method(beliefs) # "byprimarykey"
    THEN [name |-> None, error |-> None]
    ELSE IF UserName(dk, beliefs) # None
    THEN [name |-> UserName(dk, beliefs), error |-> None]
    ELSE IF ~(s_index < Len(current_suggestions))
    THEN [name |-> None, error |-> None]
    ELSE IF IndexFails(current_suggestions, s_index)
    THEN [name |-> None, error |-> "IndexError"]
    ELSE [name |-> At(current_suggestions, s_index)[dk], error |-> None]

\* ------------------------------------------------------------------------
\* Action Filter
\* ------------------------------------------------------------------------

SysActionType ==
    {"Welcome", "Bad", "Bye", "RequestMore", "Request", "InformByName",
     "InformByAlternatives"}

\* u.UserActionType, and None for an act without a type
UserActionType == {"Inform", "Request", "Hello", "Bye", "Thanks", "Bad"}

HasType(user_acts, t) == \E k \in DOMAIN user_acts : user_acts[k].type = t

\* the argument user_acts of forward: a list of acts, or None
NoUserActs == [none |-> TRUE, list |-> <<>>]

UserActs(acts) == [none |-> FALSE, list |-> acts]

IsNone(user_acts_in) == user_acts_in.none

\* the filler type removed when other acts are present, None if there is none
FillerToRemove(bad_act, thanks, hello) ==
    IF bad_act THEN "Bad"
    ELSE IF thanks THEN "Thanks"
    ELSE IF hello THEN "Hello"
    ELSE None

\* _check_for_gen_actions: the value it leaves in self.act_types_lst
_check_for_gen_actions(user_acts_in, turn_now) ==
    LET acts     == IF IsNone(user_acts_in) THEN <<>> ELSE user_acts_in.list
        kept     == SelectSeq(acts, LAMBDA act : act.type # None \/ turn_now = 0)
        lst      == [k \in DOMAIN kept |-> kept[k].type]
        filler   == FillerToRemove(HasType(acts, "Bad"), HasType(acts, "Thanks"),
                                   HasType(acts, "Hello"))
    IN  IF Len(lst) > 1 /\ filler # None THEN Remove(lst, filler) ELSE lst

\* ------------------------------------------------------------------------
\* Slot Selector
\* ------------------------------------------------------------------------

\* the number of occurrences of val in vals
Count(vals, val) == Cardinality({k \in DOMAIN vals : vals[k] = val})

Abs(n) == IF n < 0 THEN 0 - n ELSE n

\* faulty variant of Diff: the sign of the difference is kept
DiffSigned(temp, slot) ==
    Count(temp[slot], get_possible_values(slot)[1])
        - Count(temp[slot], get_possible_values(slot)[2])

\* diffs[slot] of _highest_info_gain
Diff(temp, slot) ==
    Abs(Count(temp[slot], get_possible_values(slot)[1])
        - Count(temp[slot], get_possible_values(slot)[2]))

\* the slot has an entry in diffs: both of its values occur
BothPresent(temp, slot) ==
    /\ Count(temp[slot], get_possible_values(slot)[1]) > 0
    /\ Count(temp[slot], get_possible_values(slot)[2]) > 0

\* sorted(diffs.items(), key=...)[0][0]: the first slot of the least diff
\* (sorted is stable), "" when diffs is empty
_highest_info_gain(bin_slots, temp) ==
    LET cand == SelectSeq(bin_slots, LAMBDA s : BothPresent(temp, s))
        best == {k \in DOMAIN cand :
                    \A j \in DOMAIN cand : Diff(temp, cand[k]) <= Diff(temp, cand[j])}
    IN  IF cand = <<>> THEN "" ELSE cand[MinOf(best)]

\* faulty variant of Discriminates: a single value is enough
DiscriminatesAlways(temp, slot) == Cardinality(Range(temp[slot])) > 0

\* a slot with several values in the results
Discriminates(temp, slot) == Cardinality(Range(temp[slot])) > 1

IsBinary(slot) == Len(get_possible_values(slot)) = 2

\* faulty variant of _gen_next_request: the slots the user has constrained
\* or does not care about are asked for as well
GenNextRequestUnfiltered(dk, temp, beliefs) ==
    LET req_slots == get_system_requestable_slots
        bin_slots == SelectSeq(req_slots, LAMBDA s : IsBinary(s))
        non_bin_slots == SelectSeq(req_slots, LAMBDA s : s \notin Range(bin_slots))
        differing == SelectSeq(non_bin_slots, LAMBDA s : Discriminates(temp, s))
    IN  IF differing # <<>> THEN differing[1]
        ELSE _highest_info_gain(bin_slots, temp)

_gen_next_request(dk, temp, beliefs) ==
    LET req_slots == SelectSeq(get_system_requestable_slots, LAMBDA s :
                         /\ s \notin Range(Dontcare(dk, beliefs))
                         /\ s \notin ConstrainedSlots(dk, beliefs))
        bin_slots == SelectSeq(req_slots, LAMBDA s : IsBinary(s))
        non_bin_slots == SelectSeq(req_slots, LAMBDA s : s \notin Range(bin_slots))
        differing == SelectSeq(non_bin_slots, LAMBDA s : Discriminates(temp, s))
    IN  IF differing # <<>> THEN differing[1]
        ELSE _highest_info_gain(bin_slots, temp)

\* temp of _raw_action: for each key of the first row, the values of the
\* rows (none for the primary key)
ColumnValues(dk, q_res) ==
    [key \in DOMAIN q_res[1] |->
        IF key = dk THEN <<>> ELSE [k \in DOMAIN q_res |-> q_res[k][key]]]

\* faulty variant of AsksSelector: tests for the wrong method
AsksSelectorForAlternatives(q_res, method) ==
    Len(q_res) > 1 /\ method = "byalternatives"

\* the search is ambiguous: _raw_action asks the Slot Selector
AsksSelector(q_res, method) == Len(q_res) > 1 /\ method = "byconstraints"

_raw_action(dk, q_res, method, beliefs) ==
    LET next_req == IF AsksSelector(q_res, method)
                    THEN _gen_next_request(dk, ColumnValues(dk, q_res), beliefs)
                    ELSE ""
    IN  IF next_req # ""
        THEN add_value(WithType(SysAct, "Request"), next_req, None)
        ELSE WithType(SysAct, "InformByName")

\* ------------------------------------------------------------------------
\* Inform materialization. Each operator gives the filled act, the
\* Suggestion List and cursor it leaves, and what it did to the list
\* ("replace", "scroll" or None): [sys_act, current_suggestions, s_index,
\* step].
\* ------------------------------------------------------------------------

\* the loop "for c in constraints: sys_act.add_value(c, constraints[c])"
RECURSIVE AddConstraints(_, _)
AddConstraints(sys_act, constraints) ==
    IF constraints = <<>> THEN sys_act
    ELSE AddConstraints(add_value(sys_act, constraints[1].slot, constraints[1].val),
                        Tail(constraints))

\* the loop "for k in keys: sys_act.add_value(k, res)"
RECURSIVE AddFields(_, _, _)
AddFields(sys_act, result, keys) ==
    IF keys = <<>> THEN sys_act
    ELSE AddFields(
            add_value(sys_act, keys[1],
                IF result[keys[1]] \in {None, ""} THEN "not available"
                ELSE result[keys[1]]),
            result, Tail(keys))

_convert_inform_by_primkey(dk, q_results, sys_act, beliefs, current_suggestions, s_index) ==
    LET keys   == SubSeq(RowKeys(dk, q_results[1]), 1,
                         IF Len(RowKeys(dk, q_results[1])) < 4
                         THEN Len(RowKeys(dk, q_results[1])) ELSE 4)
        filled == AddFields(WithType(sys_act, "InformByName"), q_results[1], keys)
        named  == IF dk \in Range(keys) THEN filled
                  ELSE add_value(filled, dk,
                          _get_name(dk, beliefs, current_suggestions, s_index).name)
    IN  [sys_act |-> IF q_results # <<>> THEN named
                     ELSE add_value(WithType(sys_act, "InformByName"), dk, "none"),
         current_suggestions |-> current_suggestions,
         s_index |-> s_index,
         step |-> None]

\* the cursor after "self.s_index += 1" is on an entry of the list
WithinList(current_suggestions, s_index) == s_index <= Len(current_suggestions) - 1

\* faulty variant of ClampedIndex: clamps one past the last entry
ClampedIndexOffByOne(current_suggestions) == Len(current_suggestions)

\* the cursor left when the list is exhausted
ClampedIndex(current_suggestions) == Len(current_suggestions) - 1

\* faulty variant of Seeds: seeds whenever there are results
SeedsAlways(q_res, current_suggestions) == q_res # <<>>

\* the list is seeded from the results
Seeds(q_res, current_suggestions) == q_res # <<>> /\ current_suggestions = <<>>

\* faulty variant of _convert_inform_by_alternatives: every offer is typed
\* InformByName
ConvertByAlternativesOneType(dk, sys_act, q_res, beliefs, current_suggestions, s_index) ==
    LET seeded == Seeds(q_res, current_suggestions)
        list   == IF seeded THEN q_res ELSE current_suggestions
        next   == (IF seeded THEN -1 ELSE s_index) + 1
        offer  == IF WithinList(list, next)
                  THEN add_value(WithType(sys_act, "InformByName"),
                                 dk, At(list, next)[dk])
                  ELSE add_value(WithType(sys_act, "InformByAlternatives"),
                                 "name", "none")
    IN  [sys_act |-> AddConstraints(offer, Constraints(dk, beliefs)),
         current_suggestions |-> list,
         s_index |-> IF WithinList(list, next) THEN next ELSE ClampedIndex(list),
         step |-> "scroll"]

_convert_inform_by_alternatives(dk, sys_act, q_res, beliefs, current_suggestions, s_index) ==
    LET seeded == Seeds(q_res, current_suggestions)
        list   == IF seeded THEN q_res ELSE current_suggestions
        next   == (IF seeded THEN -1 ELSE s_index) + 1
        offer  == IF WithinList(list, next)
                  THEN add_value(
                          WithType(sys_act, IF next = 0 THEN "InformByName"
                                            ELSE "InformByAlternatives"),
                          dk, At(list, next)[dk])
                  ELSE add_value(WithType(sys_act, "InformByAlternatives"),
                                 "name", "none")
    IN  [sys_act |-> AddConstraints(offer, Constraints(dk, beliefs)),
         current_suggestions |-> list,
         s_index |-> IF WithinList(list, next) THEN next ELSE ClampedIndex(list),
         step |-> "scroll"]

\* faulty variant of _convert_inform_by_constraints: the constraints are not added
ConvertByConstraintsBare(dk, q_results, sys_act, beliefs, current_suggestions, s_index) ==
    [sys_act |-> WithType(add_value(sys_act, dk,
                    IF q_results # <<>> THEN q_results[1][dk] ELSE "none"),
                    "InformByName"),
     current_suggestions |-> IF q_results # <<>> THEN q_results
                             ELSE current_suggestions,
     s_index |-> IF q_results # <<>> THEN 0 ELSE s_index,
     step |-> IF q_results # <<>> THEN "replace" ELSE None]

_convert_inform_by_constraints(dk, q_results, sys_act, beliefs, current_suggestions, s_index) ==
    LET offer == IF q_results # <<>>
                 THEN add_value(sys_act, dk, q_results[1][dk])
                 ELSE add_value(sys_act, dk, "none")
    IN  [sys_act |-> AddConstraints(WithType(offer, "InformByName"),
                                    Constraints(dk, beliefs)),
         current_suggestions |-> IF q_results # <<>> THEN q_results
                                 ELSE current_suggestions,
         s_index |-> IF q_results # <<>> THEN 0 ELSE s_index,
         step |-> IF q_results # <<>> THEN "replace" ELSE None]

_convert_inform(dk, method, q_results, sys_act, beliefs, current_suggestions, s_index) ==
    CASE method = "byprimarykey" ->
            _convert_inform_by_primkey(dk, q_results, sys_act, beliefs,
                                       current_suggestions, s_index)
      [] method = "byconstraints" ->
            _convert_inform_by_constraints(dk, q_results, sys_act, beliefs,
                                           current_suggestions, s_index)
      [] method = "byalternatives" ->
            _convert_inform_by_alternatives(dk, sys_act, q_results, beliefs,
                                            current_suggestions, s_index)
      [] OTHER ->
            [sys_act |-> sys_act, current_suggestions |-> current_suggestions,
             s_index |-> s_index, step |-> None]

\* ------------------------------------------------------------------------
\* Query Dispatcher and Domain sub-machine
\* ------------------------------------------------------------------------

\* _query_db: [results, lookup, error]
_query_db(dk, beliefs, current_suggestions, s_index) ==
    LET got == _get_name(dk, beliefs, current_suggestions, s_index)
    IN  IF got.error # None
        THEN [results |-> <<>>, lookup |-> None, error |-> got.error]
        ELSE IF got.name # None /\ _get_method(beliefs) = "byprimarykey"
        THEN [results |-> find_info_about_entity(dk, got.name,
                              _get_requested_slots(beliefs)),
              lookup |-> "find_info_about_entity", error |-> None]
        ELSE [results |-> find_entities(dk, Constraints(dk, beliefs)),
              lookup |-> "find_entities", error |-> None]

\* faulty variant of MethodIsNone: tests for None, not for the method 'none'
MethodIsNoneValue(method) == method = None

\* the entry conditions of _next_action, in the order they are tested
MethodIsNone(method) == method = "none"

\* faulty variant of AlternativesWithoutConstraints: the negation is lost
AlternativesWithConstraints(dk, method, beliefs) ==
    method = "byalternatives" /\ Constraints(dk, beliefs) # <<>>

AlternativesWithoutConstraints(dk, method, beliefs) ==
    method = "byalternatives" /\ Constraints(dk, beliefs) = <<>>

PrimaryKeyWithoutRequest(method, beliefs) ==
    method = "byprimarykey" /\ _get_requested_slots(beliefs) = <<>>

\* the belief state object handed to forward: the beliefs and the system
\* memory
BeliefState(beliefs, system) == [beliefs |-> beliefs, system |-> system]

\* faulty variant of WriteMemory: the value is stored among the beliefs
WriteBeliefs(bs, field, value) ==
    [bs EXCEPT !.beliefs = (field :> <<[val |-> value, p |-> 1]>>) @@ @]

\* belief_state['system'][field] = value
WriteMemory(bs, field, value) == [bs EXCEPT !.system[field] = value]

\* the outcome of a turn: the act returned, the policy's fields and the
\* belief state it leaves, the lookup it made, the exception it raised,
\* what it did to the Suggestion List
Outcome(act, list, index, bs, lookup_made, raised, list_step) ==
    [sys_act |-> act, current_suggestions |-> list, s_index |-> index,
     belief_state |-> bs, lookup |-> lookup_made, error |-> raised,
     step |-> list_step]

\* the turn ends in an exception: nothing is returned, nothing was written
Raised(raised, current_suggestions, s_index, bs) ==
    Outcome(SysAct, current_suggestions, s_index, bs, None, raised, None)

\* lines 330-346 of _next_action: the memory written for the act raw
PostProcess(dk, method, results, raw, bs, current_suggestions, s_index, lookup_made) ==
    IF raw.type = "Request"
    THEN Outcome(raw, current_suggestions, s_index,
                 IF raw.slot_values # <<>>
                 THEN WriteMemory(bs, "lastRequestSlot", raw.slot_values[1].slot)
                 ELSE bs,
                 lookup_made, None, None)
    ELSE LET conv   == _convert_inform(dk, method, results, raw, bs.beliefs,
                                       current_suggestions, s_index)
             values == get_values(conv.sys_act, dk)
         IN  Outcome(IF values # <<>> THEN conv.sys_act
                     ELSE add_value(conv.sys_act, dk, "none"),
                     conv.current_suggestions, conv.s_index,
                     IF values # <<>>
                     THEN WriteMemory(bs, "lastInformedPrimKeyVal", values[1])
                     ELSE bs,
                     lookup_made, None, conv.step)

_next_action(dk, bs, current_suggestions, s_index) ==
    LET beliefs == bs.beliefs
        method == _get_method(beliefs)
        got    == _get_name(dk, beliefs, current_suggestions, s_index)
        q      == _query_db(dk, beliefs, current_suggestions, s_index)
    IN  IF MethodIsNone(method)
        THEN Outcome(WithType(SysAct, "Bad"), current_suggestions, s_index,
                     bs, None, None, None)
        ELSE IF AlternativesWithoutConstraints(dk, method, beliefs)
        THEN Outcome(WithType(SysAct, "Bad"), current_suggestions, s_index,
                     bs, None, None, None)
        ELSE IF PrimaryKeyWithoutRequest(method, beliefs)
        THEN IF got.error # None
             THEN Raised(got.error, current_suggestions, s_index, bs)
             ELSE Outcome(add_value(WithType(SysAct, "InformByName"), dk, got.name),
                          current_suggestions, s_index,
                          WriteMemory(bs, "lastInformedPrimKeyVal", got.name),
                          None, None, None)
        ELSE IF q.error # None
        THEN Raised(q.error, current_suggestions, s_index, bs)
        ELSE PostProcess(dk, method, q.results,
                         _raw_action(dk, q.results, method, beliefs), bs,
                         current_suggestions, s_index, q.lookup)

\* ------------------------------------------------------------------------
\* Turn Controller
\* ------------------------------------------------------------------------

\* faulty variant of NoUsableInput: the first two turns are let through
NoUsableInputLate(types, turn_now) == types = <<>> /\ turn_now > 1

\* line 99: there is no user act and it is not the first turn
NoUsableInput(types, turn_now) == types = <<>> /\ turn_now > 0

\* faulty variant of Branch: Bye is tested before Bad
BranchByeFirst(user_acts_in, turn_now, types) ==
    IF IsNone(user_acts_in) /\ turn_now = 0 THEN "Welcome"
    ELSE IF NoUsableInput(types, turn_now) THEN "NoInput"
    ELSE IF "Bye" \in Range(types) THEN "Farewell"
    ELSE IF "Bad" \in Range(types) THEN "BadInput"
    ELSE IF "Thanks" \in Range(types) THEN "Acknowledge"
    ELSE IF "Hello" \in Range(types) THEN "Greet"
    ELSE "Domain"

\* the branch of forward taken for the filtered act types
Branch(user_acts_in, turn_now, types) ==
    IF IsNone(user_acts_in) /\ turn_now = 0 THEN "Welcome"
    ELSE IF NoUsableInput(types, turn_now) THEN "NoInput"
    ELSE IF "Bad" \in Range(types) THEN "BadInput"
    ELSE IF "Bye" \in Range(types) THEN "Farewell"
    ELSE IF "Thanks" \in Range(types) THEN "Acknowledge"
    ELSE IF "Hello" \in Range(types) THEN "Greet"
    ELSE "Domain"

\* forward: the outcome of the turn
forward(dk, turn_now, bs, user_acts_in, current_suggestions, s_index) ==
    LET types == _check_for_gen_actions(user_acts_in, turn_now)
        taken == Branch(user_acts_in, turn_now, types)
        plain(t) == Outcome(WithType(SysAct, t), current_suggestions, s_index,
                            bs, None, None, None)
    IN  CASE taken = "Welcome" -> plain("Welcome")
          [] taken = "NoInput" -> plain("Bad")
          [] taken = "BadInput" -> plain("Bad")
          [] taken = "Farewell" -> plain("Bye")
          [] taken = "Acknowledge" -> plain("RequestMore")
          [] taken = "Greet" ->
                Outcome(add_value(WithType(SysAct, "Request"),
                                  _get_open_slot(dk, bs.beliefs), None),
                        current_suggestions, s_index, bs, None, None, None)
          [] taken = "Domain" ->
                _next_action(dk, bs, current_suggestions, s_index)

\* ------------------------------------------------------------------------
\* Inputs of a turn
\* ------------------------------------------------------------------------

\* a distribution over vals in which exactly the values of on are active
Dist(vals, on) ==
    [k \in DOMAIN vals |-> [val |-> vals[k], p |-> IF vals[k] \in on THEN 1 ELSE 0]]

MethodValues == <<"byprimarykey", "byconstraints", "byalternatives", "none">>

Beliefs(dk, method, name, requested, semester, instructor, lang) ==
    ("requested" :> Dist(<<NONE, "instructor", "lang">>, requested))
    @@ ("method" :> Dist(MethodValues, method))
    @@ (dk :> Dist(<<NONE, "e1", "e6">>, name))
    @@ ("semester" :> Dist(<<NONE, "winter", "summer", DONTCARE>>, semester))
    @@ ("instructor" :> Dist(<<NONE, "i1", "i2", "i3", DONTCARE>>, instructor))
    @@ ("lang" :> Dist(<<NONE, "en", "de", DONTCARE>>, lang))
    @@ ("level" :> Dist(<<NONE, "a", "b", "c", DONTCARE>>, {NONE}))

\* the belief state before the user has said anything
InitialBeliefs(dk) == Beliefs(dk, {"none"}, {NONE}, {NONE}, {NONE}, {NONE}, {NONE})

\* the constraints a user states in the dialogs explored: the active values
\* of semester, instructor and lang
Goals ==
    { <<{NONE}, {NONE}, {NONE}>>,
      <<{"winter"}, {NONE}, {NONE}>>,
      <<{"summer"}, {NONE}, {NONE}>>,
      <<{"winter", "summer"}, {NONE}, {NONE}>>,
      <<{NONE}, {NONE}, {"de"}>>,
      <<{"summer"}, {NONE}, {"en"}>>,
      <<{NONE}, {"i2"}, {NONE}>>,
      <<{NONE}, {DONTCARE}, {NONE}>>,
      <<{DONTCARE}, {DONTCARE}, {"de"}>> }

\* the belief states of the dialogs explored
SearchBeliefs(dk) ==
    { Beliefs(dk, {m}, {NONE}, {NONE}, g[1], g[2], g[3]) :
        m \in {"byconstraints", "byalternatives"}, g \in Goals }

EntityBeliefs(dk) ==
    { Beliefs(dk, {"byprimarykey"}, n, r, {NONE}, {NONE}, {NONE}) :
        n \in {{NONE}, {"e1", "e6"}},
        r \in {{NONE}, {"instructor", "lang"}} }

IdleBeliefs(dk) ==
    { Beliefs(dk, m, {NONE}, {NONE}, {NONE}, {NONE}, {NONE}) :
        m \in {{}, {"none"}, {"byconstraints", "none"}} }

BeliefInputs(dk) == SearchBeliefs(dk) \cup EntityBeliefs(dk) \cup IdleBeliefs(dk)

\* a user act; the policy reads its type only
UserAct(t) == [type |-> t]

\* the user-act lists of at most n acts
ActLists(n) ==
    UNION { [1..k -> {UserAct(t) : t \in UserActionType \cup {None}}] : k \in 0..n }

\* the user acts of the dialogs explored: absent, or one act
DialogActs ==
    {NoUserActs, UserActs(<<>>), UserActs(<<UserAct(None)>>),
     UserActs(<<UserAct("Inform")>>)}

\* ------------------------------------------------------------------------
\* State
\* ------------------------------------------------------------------------

VARIABLES
    domain_key,           \* self.domain_key
    num_turns,            \* dialog_graph.num_turns
    turn,                 \* self.turn
    user_acts,            \* the user acts of the last call
    belief_state,         \* the belief state of the last call: beliefs, system
    act_types_lst,        \* self.act_types_lst
    current_suggestions,  \* self.current_suggestions
    s_index,              \* self.s_index
    sys_act,              \* the act the last call returned
    lookup,               \* the domain lookup the last call made, None if none
    error,                \* the exception that ended the last call, None if none
    before,               \* history: current_suggestions, s_index and the
                          \* belief state (beliefs, system memory) as they
                          \* were when the last call began
    scroll_base,          \* history: the length of the Suggestion List when it
                          \* was last replaced by a byconstraints turn, 0 before
    scrolled,             \* history: the byalternatives turns that have scrolled
                          \* the list since then, for each the type of its
                          \* act, the values of its primary-key slot, the
                          \* cursor and the length of the list it left
    column_values,        \* the argument temp of the last call of
                          \* _gen_next_request made on its own
    next_slot             \* what that call returned, None before it

vars == <<domain_key, num_turns, turn, user_acts, belief_state, act_types_lst,
          current_suggestions, s_index, sys_act, lookup, error,
          before, scroll_base, scrolled, column_values, next_slot>>

\* __init__, and the belief state before the first turn
Init ==
    /\ domain_key \in PrimaryKeys
    /\ num_turns = 0
    /\ turn = 0
    /\ user_acts = NoUserActs
    /\ belief_state =
          [beliefs |-> InitialBeliefs(domain_key),
           system  |-> [lastInformedPrimKeyVal |-> None, lastRequestSlot |-> None]]
    /\ act_types_lst = <<>>
    /\ current_suggestions = <<>>
    /\ s_index = 0
    /\ sys_act = SysAct
    /\ lookup = None
    /\ error = None
    /\ before = [current_suggestions |-> <<>>, s_index |-> 0,
                 beliefs |-> InitialBeliefs(domain_key),
                 system |-> [lastInformedPrimKeyVal |-> None, lastRequestSlot |-> None]]
    /\ scroll_base = 0
    /\ scrolled = <<>>
    /\ column_values = <<>>
    /\ next_slot = None

\* the entry of scrolled for a byalternatives turn
Scrolled(dk, out) ==
    [type |-> out.sys_act.type, values |-> get_values(out.sys_act, dk),
     s_index |-> out.s_index, size |-> Len(out.current_suggestions)]

\* one call of forward for the turn num_turns; an exception ends the dialog
Forward(acts, beliefs) ==
    /\ error = None
    /\ num_turns < MaxTurn
    /\ \E out \in {forward(domain_key, num_turns,
                           BeliefState(beliefs, belief_state.system), acts,
                           current_suggestions, s_index)} :
        /\ turn' = num_turns
        /\ num_turns' = num_turns + 1
        /\ user_acts' = acts
        /\ act_types_lst' = _check_for_gen_actions(acts, num_turns)
        /\ belief_state' = out.belief_state
        /\ current_suggestions' = out.current_suggestions
        /\ s_index' = out.s_index
        /\ sys_act' = out.sys_act
        /\ lookup' = out.lookup
        /\ error' = out.error
        /\ before' = [current_suggestions |-> current_suggestions,
                      s_index |-> s_index, beliefs |-> beliefs,
                      system |-> belief_state.system]
        /\ scroll_base' = IF out.step = "replace"
                          THEN Len(out.current_suggestions) ELSE scroll_base
        /\ scrolled' = IF out.step = "replace" THEN <<>>
                       ELSE IF out.step = "scroll"
                       THEN Append(scrolled, Scrolled(domain_key, out))
                       ELSE scrolled
        /\ UNCHANGED <<domain_key, column_values, next_slot>>

Next == \E acts \in DialogActs, beliefs \in BeliefInputs(domain_key) : Forward(acts, beliefs)

Spec == Init /\ [][Next]_vars

\* ------------------------------------------------------------------------
\* The Turn Controller on its own: a turn with any list of at most MaxActs
\* user acts, as the first turn of a dialog or as the turn after the welcome
\* ------------------------------------------------------------------------

Welcome ==
    /\ num_turns = 0
    /\ Forward(NoUserActs, InitialBeliefs(domain_key))

AnyTurn ==
    /\ num_turns = 0 \/ (num_turns = 1 /\ sys_act.type = "Welcome")
    /\ \E acts \in ActLists(MaxActs), beliefs \in BeliefInputs(domain_key) :
          Forward(UserActs(acts), beliefs)

NextTurn == Welcome \/ AnyTurn

SpecTurn == Init /\ [][NextTurn]_vars

\* ------------------------------------------------------------------------
\* A turn of any kind after the dialog has built its state: the welcome or
\* search turns first, then one turn with no act, an empty act list or one
\* act of any type
\* ------------------------------------------------------------------------

\* the user acts of the turn observed
GeneralActs ==
    {NoUserActs, UserActs(<<>>)}
        \cup {UserActs(<<UserAct(t)>>) : t \in UserActionType \cup {None}}

Settle ==
    /\ num_turns < SettleTurns
    /\ \E beliefs \in SearchBeliefs(domain_key) :
          Forward(UserActs(<<UserAct("Inform")>>), beliefs)

Resolve ==
    /\ num_turns = SettleTurns
    /\ \E acts \in GeneralActs, beliefs \in BeliefInputs(domain_key) :
          Forward(acts, beliefs)

NextResolve == Welcome \/ Settle \/ Resolve

SpecResolve == Init /\ [][NextResolve]_vars

\* ------------------------------------------------------------------------
\* The Slot Selector on its own: one call of _gen_next_request for the
\* columns of a search result of 2 to MaxRows rows and a belief state. The
\* selector looks at the set of values of a column and at the number of
\* times a value occurs, so the columns are taken sorted.
\* ------------------------------------------------------------------------

\* the columns of n values among vals, in the order of vals
SortedColumns(vals, n) ==
    { [k \in 1..n |-> vals[f[k]]] :
        f \in {g \in [1..n -> DOMAIN vals] :
                  \A k \in 1..(n - 1) : g[k] <= g[k + 1]} }

\* temp of _raw_action for results of n rows
ColumnInputs(dk, n) ==
    { (dk :> <<>>) @@ ("semester" :> s) @@ ("instructor" :> i)
        @@ ("lang" :> l) @@ ("level" :> v) :
        s \in SortedColumns(get_possible_values("semester"), n),
        i \in SortedColumns(get_possible_values("instructor"), n),
        l \in SortedColumns(get_possible_values("lang"), n),
        v \in SortedColumns(get_possible_values("level"), n) }

\* belief states of a search: slots constrained, set to dontcare or open
SelectorBeliefs(dk) ==
    { Beliefs(dk, {"byconstraints"}, {NONE}, {NONE}, s, i, l) :
        s \in {{NONE}, {"winter"}, {DONTCARE}},
        i \in {{NONE}, {DONTCARE}},
        l \in {{NONE}, {"en"}} }

SelectorInit == Init /\ domain_key = "name"

SelectNextSlot ==
    /\ next_slot = None
    /\ \E n \in 2..MaxRows :
         \E temp \in ColumnInputs(domain_key, n),
            beliefs \in SelectorBeliefs(domain_key) :
            /\ column_values' = temp
            /\ belief_state' = [belief_state EXCEPT !.beliefs = beliefs]
            /\ next_slot' = _gen_next_request(domain_key, temp, beliefs)
    /\ UNCHANGED <<domain_key, num_turns, turn, user_acts, act_types_lst,
                   current_suggestions, s_index, sys_act, lookup, error,
                   before, scroll_base, scrolled>>

SpecSelector == SelectorInit /\ [][SelectNextSlot]_vars

\* ------------------------------------------------------------------------
\* The last call of forward, as the state records it
\* ------------------------------------------------------------------------

\* forward has been called
Called == num_turns > 0

\* the last call left the Suggestion List and the cursor as they were
ListUnchanged ==
    /\ current_suggestions = before.current_suggestions
    /\ s_index = before.s_index

\* the branch the last call took
Taken == Branch(user_acts, turn, act_types_lst)

\* the method, the constraints and the search results of the last call
Method == _get_method(belief_state.beliefs)

TurnConstraints == Constraints(domain_key, belief_state.beliefs)

Results == find_entities(domain_key, TurnConstraints)

\* the slot the Slot Selector gives for the results of the last call
NextRequest ==
    _gen_next_request(domain_key, ColumnValues(domain_key, Results),
                      belief_state.beliefs)

\* the slot/value pairs an act carries for the constraints of the last call
ConstraintPairs ==
    [k \in DOMAIN TurnConstraints |->
        [slot |-> TurnConstraints[k].slot, values |-> <<TurnConstraints[k].val>>]]

\* ------------------------------------------------------------------------
\* Claims
\* ------------------------------------------------------------------------

\* C1: every call of forward returns a SysAct and never ends in an
\* exception. Violated: a byalternatives turn on an empty Suggestion List
\* whose search is empty leaves s_index = -1, and the next byprimarykey
\* turn without a user-given name raises IndexError in _get_name.
C1_AlwaysReturnsSysAct ==
    Called => (error = None /\ sys_act.type \in SysActionType)

\* C2: over the byalternatives turns that scroll one candidate set, s_index
\* after each turn is at least its value after the previous one and never
\* exceeds the last index of the Suggestion List.
C2_MonotonicCursor ==
    \A k \in DOMAIN scrolled :
        /\ scrolled[k].s_index <= scrolled[k].size - 1
        /\ k > 1 => scrolled[k].s_index >= scrolled[k - 1].s_index

C2_Witness ==
    /\ Len(scrolled) >= 3
    /\ scrolled[1].size >= 2
    /\ scrolled[1].s_index < scrolled[2].s_index
    /\ scrolled[3].s_index = scrolled[2].s_index
    /\ scrolled[3].s_index = scrolled[3].size - 1

\* the k-th response of the scenario of C3 on the list of three candidates
ScenarioResponse(k) ==
    [type    |-> IF k = 1 THEN "InformByName" ELSE "InformByAlternatives",
     values  |-> IF k <= 3 THEN <<current_suggestions[k][domain_key]>>
                 ELSE <<"none">>,
     s_index |-> IF k <= 3 THEN k - 1 ELSE 2,
     size    |-> 3]

\* C3 as stated: once a byconstraints turn has built a Suggestion List of
\* three candidates, the byalternatives turns that follow answer
\* InformByName(index 0), InformByAlternatives(index 1),
\* InformByAlternatives(index 2), InformByAlternatives("none", cursor 2).
C3_ScenarioFromBuiltList ==
    scroll_base = 3 =>
        \A k \in DOMAIN scrolled : k <= 4 => scrolled[k] = ScenarioResponse(k)

\* C3 as amended: when the Suggestion List is empty and the first
\* byalternatives turn seeds it with three candidates, the first four
\* byalternatives turns answer InformByName(index 0),
\* InformByAlternatives(index 1), InformByAlternatives(index 2),
\* InformByAlternatives(primary key "none", cursor clamped at 2).
C3_ScenarioFromEmptyList ==
    (scroll_base = 0 /\ scrolled # <<>> /\ scrolled[1].size = 3) =>
        \A k \in DOMAIN scrolled : k <= 4 => scrolled[k] = ScenarioResponse(k)

C3_Witness ==
    /\ scroll_base = 0
    /\ Len(scrolled) = 4
    /\ scrolled[1].size = 3
    /\ scrolled[4].values = <<"none">>
    /\ s_index = 2

\* C4 as stated: with the method none, forward returns Bad whatever the
\* user acts of the turn are.
C4_MethodNoneAlwaysBad ==
    (Called /\ Method = "none") => sys_act.type = "Bad"

\* C4 as amended: with the method none, forward returns Bad on every turn
\* that reaches the Domain sub-machine; on the other turns the user acts
\* decide the act (Welcome, Bad, Bye, RequestMore or the Greet Request).
C4_MethodNoneBadInDomain ==
    (Called /\ Method = "none") =>
        /\ error = None
        /\ Taken = "Domain" => sys_act.type = "Bad"
        /\ sys_act.type \in {"Welcome", "Bad", "Bye", "RequestMore", "Request"}

C4_Witness ==
    /\ Called
    /\ Method = "none"
    /\ Taken = "Domain"
    /\ Len(user_acts.list) > 1
    /\ sys_act.type = "Bad"

\* C5: a turn that reaches the Domain sub-machine with the method
\* byalternatives and no active constraint returns Bad, makes no domain
\* lookup and leaves the Suggestion List and s_index as they were.
C5_AlternativesWithoutConstraints ==
    (Called /\ Taken = "Domain" /\ Method = "byalternatives"
            /\ TurnConstraints = <<>>)
        => /\ sys_act.type = "Bad"
           /\ lookup = None
           /\ error = None
           /\ ListUnchanged

C5_Witness ==
    /\ Called
    /\ Taken = "Domain"
    /\ Method = "byalternatives"
    /\ TurnConstraints = <<>>
    /\ current_suggestions # <<>>
    /\ s_index > 0
    /\ sys_act.type = "Bad"

\* C6: on turn 0 with no user acts, the act list absent or empty, forward
\* returns Welcome. Violated: with the empty list forward goes on to the
\* Domain sub-machine.
C6_WelcomeOnTurnZero ==
    (Called /\ turn = 0 /\ (IsNone(user_acts) \/ user_acts.list = <<>>))
        => sys_act.type = "Welcome"

\* C7: on a turn > 0 whose filtered act types are empty (the act list is
\* absent, empty, or holds only acts without a type), forward returns Bad
\* without an exception and leaves the Suggestion List and s_index as they
\* were.
C7_NoInputIsBad ==
    (Called /\ turn > 0 /\ act_types_lst = <<>>)
        => /\ sys_act.type = "Bad"
           /\ error = None
           /\ ListUnchanged

C7_Witness ==
    /\ Called
    /\ turn > 0
    /\ act_types_lst = <<>>
    /\ ~IsNone(user_acts)
    /\ user_acts.list # <<>>
    /\ current_suggestions # <<>>
    /\ sys_act.type = "Bad"
    /\ error = None

\* the acts are Hello together with at least one Inform or Request
HelloWithSubstantive(acts) ==
    /\ HasType(acts, "Hello")
    /\ HasType(acts, "Inform") \/ HasType(acts, "Request")
    /\ \A k \in DOMAIN acts : acts[k].type \in {"Hello", "Inform", "Request"}

\* C8: a turn whose user acts are Hello together with at least one Inform
\* or Request reaches the Domain sub-machine, not the Greet branch.
\* Violated: of two Hello acts only the first is removed.
C8_HelloWithSubstantiveIsDomain ==
    (Called /\ HelloWithSubstantive(user_acts.list)) => Taken = "Domain"

\* C9: in a byconstraints turn that reaches the Domain sub-machine, when
\* the search returns more than one row and the Slot Selector returns a
\* slot, forward returns Request for that slot and the Suggestion List and
\* s_index are unchanged.
C9_AmbiguousSearchRequests ==
    (Called /\ Taken = "Domain" /\ Method = "byconstraints"
            /\ Len(Results) > 1 /\ NextRequest # "")
        => /\ sys_act.type = "Request"
           /\ sys_act.slot_values = <<[slot |-> NextRequest, values |-> <<>>]>>
           /\ error = None
           /\ ListUnchanged

C9_Witness ==
    /\ Called
    /\ Taken = "Domain"
    /\ Method = "byconstraints"
    /\ TurnConstraints = <<[slot |-> "semester", val |-> "winter"]>>
    /\ Len(Results) = 5
    /\ sys_act.type = "Request"
    /\ sys_act.slot_values = <<[slot |-> "instructor", values |-> <<>>]>>
    /\ current_suggestions # <<>>

\* C10: in a byconstraints turn that reaches the Domain sub-machine and
\* whose search returns exactly one row, forward returns InformByName
\* carrying the primary key of that row followed by every active constraint.
C10_SingleResultInforms ==
    (Called /\ Taken = "Domain" /\ Method = "byconstraints" /\ Len(Results) = 1)
        => /\ error = None
           /\ sys_act.type = "InformByName"
           /\ sys_act.slot_values =
                 <<[slot |-> domain_key, values |-> <<Results[1][domain_key]>>]>>
                 \o ConstraintPairs

C10_Witness ==
    /\ Called
    /\ turn > 0
    /\ Taken = "Domain"
    /\ Method = "byconstraints"
    /\ Len(Results) = 1
    /\ TurnConstraints = <<[slot |-> "semester", val |-> "summer"]>>
    /\ sys_act.type = "InformByName"
    /\ scroll_base = 1
    /\ Len(before.current_suggestions) > 1

\* the results of the domain lookup the last call made
LookupResults ==
    IF lookup = "find_info_about_entity"
    THEN find_info_about_entity(domain_key,
             _get_name(domain_key, belief_state.beliefs,
                       before.current_suggestions, before.s_index).name,
             _get_requested_slots(belief_state.beliefs))
    ELSE Results

\* the list and the cursor of a byalternatives turn after seeding and
\* "self.s_index += 1", before the bound test
ScrollList ==
    IF Seeds(Results, before.current_suggestions) THEN Results
    ELSE before.current_suggestions

ScrollIndex ==
    (IF Seeds(Results, before.current_suggestions) THEN -1 ELSE before.s_index) + 1

\* the last call was a byalternatives turn that materialized an inform
ScrollTurn ==
    /\ Called
    /\ error = None
    /\ Taken = "Domain"
    /\ Method = "byalternatives"
    /\ TurnConstraints # <<>>

\* C11: whenever the domain lookup of a turn returns no row, forward
\* returns an inform (InformByName or InformByAlternatives, no exception)
\* whose primary-key slot carries "none". Violated: a byalternatives turn
\* on a Suggestion List that still has a candidate offers that candidate
\* although its own search found nothing.
C11_EmptyLookupInformsNone ==
    (Called /\ lookup # None /\ LookupResults = <<>>)
        => /\ error = None
           /\ sys_act.type \in {"InformByName", "InformByAlternatives"}
           /\ "none" \in Range(get_values(sys_act, domain_key))

C13_BeliefsReadOnly ==
    Called =>
        /\ belief_state.beliefs = before.beliefs
        /\ DOMAIN belief_state = {"beliefs", "system"}
        /\ DOMAIN belief_state.system = {"lastInformedPrimKeyVal", "lastRequestSlot"}
        /\ Constraints(domain_key, belief_state.beliefs)
              = Constraints(domain_key, before.beliefs)
        /\ belief_state.system.lastRequestSlot # before.system.lastRequestSlot
              => (Taken = "Domain" /\ sys_act.type = "Request")
        /\ belief_state.system.lastInformedPrimKeyVal
                 # before.system.lastInformedPrimKeyVal
              => (Taken = "Domain"
                  /\ sys_act.type \in {"InformByName", "InformByAlternatives"})

C13_Witness ==
    /\ Called
    /\ belief_state.system.lastRequestSlot # None
    /\ before.system.lastInformedPrimKeyVal # None
    /\ belief_state.system.lastInformedPrimKeyVal
          # before.system.lastInformedPrimKeyVal
    /\ TurnConstraints # <<>>

\* C16: a turn that reaches the Domain sub-machine while no method is
\* active returns Bad and makes no domain lookup. Violated: _get_method
\* gives None, which is not the method 'none', and the turn searches the
\* domain and informs.
C16_AbsentMethodIsBad ==
    (Called /\ Taken = "Domain" /\ Method = None)
        => (sys_act.type = "Bad" /\ lookup = None)

\* the last call was a byconstraints turn in the Domain sub-machine whose
\* search found a row
SearchFound ==
    /\ Called
    /\ error = None
    /\ Taken = "Domain"
    /\ Method = "byconstraints"
    /\ Results # <<>>

\* C20 as stated: after every byconstraints turn whose search finds a row
\* the Suggestion List is the rows found and s_index is 0, and no other
\* turn replaces a Suggestion List that is not empty.
C20_SearchReplacesList ==
    /\ SearchFound => (current_suggestions = Results /\ s_index = 0)
    /\ (Called /\ before.current_suggestions # <<>>
            /\ current_suggestions # before.current_suggestions)
          => SearchFound

\* C20 as amended: after a byconstraints turn whose search finds a row and
\* which answers with an inform (one row found, or the Slot Selector gives
\* no slot) the Suggestion List is the rows found and s_index is 0; when it
\* answers with a Request the list and s_index are as they were; no other
\* turn replaces a Suggestion List that is not empty.
C20_InformingSearchReplacesList ==
    /\ (SearchFound /\ sys_act.type # "Request")
          => (current_suggestions = Results /\ s_index = 0
              /\ sys_act.type = "InformByName")
    /\ (SearchFound /\ sys_act.type = "Request") => ListUnchanged
    /\ (Called /\ before.current_suggestions # <<>>
            /\ current_suggestions # before.current_suggestions)
          => (SearchFound /\ sys_act.type = "InformByName")

C20_Witness ==
    /\ SearchFound
    /\ sys_act.type = "InformByName"
    /\ Len(Results) = 2
    /\ current_suggestions = Results
    /\ s_index = 0
    /\ before.s_index = 2
    /\ Len(before.current_suggestions) = 3

\* the types the acts of the last call carry, and the types left by the
\* Action Filter
ActTypes == {user_acts.list[k].type : k \in DOMAIN user_acts.list} \ {None}

FilteredTypes == Range(act_types_lst) \ {None}

\* the act types with a transition of their own
GeneralTypes == {"Bad", "Bye", "Thanks", "Hello"}

\* C17: when the acts of a turn carry more than one distinct type, the
\* Action Filter drops Bad and nothing else if Bad is among them, else
\* Thanks and nothing else if Thanks is among them, else Hello if Hello is
\* among them; with one distinct type it drops nothing. Violated: of a
\* type that occurs twice only the first occurrence is removed.
C17_FilterDropsByPriority ==
    Called =>
        IF Cardinality(ActTypes) > 1
        THEN IF "Bad" \in ActTypes THEN FilteredTypes = ActTypes \ {"Bad"}
             ELSE IF "Thanks" \in ActTypes THEN FilteredTypes = ActTypes \ {"Thanks"}
             ELSE IF "Hello" \in ActTypes THEN "Hello" \notin FilteredTypes
             ELSE FilteredTypes = ActTypes
        ELSE FilteredTypes = ActTypes

\* C18: the act types left by the Action Filter contain at most one of
\* Bad, Bye, Thanks and Hello. Violated: the filter removes one occurrence
\* of one filler type and leaves the others.
C18_AtMostOneGeneralType ==
    Called => Cardinality(FilteredTypes \cap GeneralTypes) <= 1

\* the last call returned the act of type t without a slot and touched
\* nothing
PlainAct(t) ==
    /\ sys_act = WithType(SysAct, t)
    /\ lookup = None
    /\ error = None
    /\ ListUnchanged
    /\ belief_state.system = before.system

\* the last call shows the work of the Domain sub-machine
DomainRan ==
    \/ lookup # None
    \/ error # None
    \/ sys_act.type \in {"InformByName", "InformByAlternatives"}
    \/ belief_state.system # before.system

\* C19: on the filtered act types forward answers Bad when Bad is among
\* them, else Bye when Bye is, else RequestMore when Thanks is, else a
\* Request for the slot given by _get_open_slot when Hello is; the Domain
\* sub-machine runs only when none of the four is among them and, on a
\* turn > 0, the filtered types are not empty.
C19_DispatchByPriority ==
    (Called /\ ~(IsNone(user_acts) /\ turn = 0)) =>
        /\ "Bad" \in FilteredTypes => PlainAct("Bad")
        /\ ("Bye" \in FilteredTypes /\ "Bad" \notin FilteredTypes)
              => PlainAct("Bye")
        /\ ("Thanks" \in FilteredTypes /\ FilteredTypes \cap {"Bad", "Bye"} = {})
              => PlainAct("RequestMore")
        /\ ("Hello" \in FilteredTypes
                /\ FilteredTypes \cap {"Bad", "Bye", "Thanks"} = {})
              => /\ sys_act.type = "Request"
                 /\ sys_act.slot_values =
                       <<[slot |-> _get_open_slot(domain_key, belief_state.beliefs),
                          values |-> <<>>]>>
                 /\ ~DomainRan
                 /\ ListUnchanged
        /\ DomainRan
              => /\ FilteredTypes \cap GeneralTypes = {}
                 /\ turn > 0 => act_types_lst # <<>>

C19_Witness ==
    /\ Called
    /\ turn = 1
    /\ FilteredTypes = {"Hello", "Inform"}
    /\ sys_act.type = "Request"
    /\ sys_act.slot_values = <<[slot |-> "instructor", values |-> <<>>]>>
    /\ TurnConstraints # <<>>

\* _gen_next_request has been called on its own
Selected == next_slot # None

\* the system-requestable slots that are neither constrained nor dontcare
OpenSlots ==
    {s \in Range(get_system_requestable_slots) :
        /\ s \notin ConstrainedSlots(domain_key, belief_state.beliefs)
        /\ s \notin Range(Dontcare(domain_key, belief_state.beliefs))}

\* the place of a slot in the order the domain declares
Position(slot) ==
    CHOOSE k \in DOMAIN get_system_requestable_slots :
        get_system_requestable_slots[k] = slot

\* the number of result rows with the n-th possible value of the slot
Occurrences(slot, n) ==
    Cardinality({k \in DOMAIN column_values[slot] :
                    column_values[slot][k] = get_possible_values(slot)[n]})

\* the values of the slot across the result rows are not all identical
Varies(slot) ==
    \E i, j \in DOMAIN column_values[slot] :
        column_values[slot][i] # column_values[slot][j]

\* the non-binary candidates that still discriminate
VaryingNonBinary ==
    {s \in OpenSlots : Len(get_possible_values(s)) > 2 /\ Varies(s)}

\* the binary candidates whose two values both occur
SplitBinary ==
    {s \in OpenSlots :
        /\ Len(get_possible_values(s)) = 2
        /\ Occurrences(s, 1) > 0
        /\ Occurrences(s, 2) > 0}

Imbalance(slot) ==
    IF Occurrences(slot, 1) >= Occurrences(slot, 2)
    THEN Occurrences(slot, 1) - Occurrences(slot, 2)
    ELSE Occurrences(slot, 2) - Occurrences(slot, 1)

\* C14: when a non-binary candidate slot has values that differ across the
\* result rows, _gen_next_request returns the first such slot in the order
\* the domain declares; it returns a binary slot only when no non-binary
\* candidate discriminates.
C14_FirstVaryingNonBinary ==
    Selected =>
        /\ VaryingNonBinary # {}
              => /\ next_slot \in VaryingNonBinary
                 /\ \A t \in VaryingNonBinary : Position(next_slot) <= Position(t)
        /\ (next_slot # "" /\ Len(get_possible_values(next_slot)) = 2)
              => VaryingNonBinary = {}

C14_Witness ==
    /\ Selected
    /\ next_slot = "level"
    /\ "instructor" \in OpenSlots
    /\ ~Varies("instructor")
    /\ "semester" \in SplitBinary
    /\ column_values["level"] = <<"a", "a", "c">>

\* C15: when no non-binary candidate discriminates, _gen_next_request
\* returns, among the binary candidates whose two values both occur in the
\* results, one with the least absolute difference between the two counts,
\* and returns no slot ("") when there is no such candidate.
C15_MostEvenBinarySplit ==
    (Selected /\ VaryingNonBinary = {}) =>
        IF SplitBinary = {}
        THEN next_slot = ""
        ELSE /\ next_slot \in SplitBinary
             /\ \A t \in SplitBinary : Imbalance(next_slot) <= Imbalance(t)

C15_Witness ==
    /\ Selected
    /\ VaryingNonBinary = {}
    /\ next_slot = "lang"
    /\ "semester" \in SplitBinary
    /\ Imbalance("lang") = 0
    /\ Imbalance("semester") = 2
    /\ Occurrences("semester", 1) = 1

\* the last call was a byalternatives turn that offered a candidate
Offered == ScrollTurn /\ get_values(sys_act, domain_key) # <<"none">>

\* C21 as stated: a byalternatives turn that starts with an empty
\* Suggestion List seeds it from its results and ends with s_index = 0 and
\* InformByName for the first result; an offer at an index greater than 0
\* is InformByAlternatives for the candidate at that index.
C21_EmptyListIsSeeded ==
    /\ (ScrollTurn /\ before.current_suggestions = <<>>)
          => /\ current_suggestions = Results
             /\ s_index = 0
             /\ sys_act.type = "InformByName"
             /\ Results # <<>>
             /\ get_values(sys_act, domain_key) = <<Results[1][domain_key]>>
    /\ (Offered /\ s_index > 0)
          => /\ sys_act.type = "InformByAlternatives"
             /\ get_values(sys_act, domain_key)
                   = <<current_suggestions[s_index + 1][domain_key]>>

\* C21 as amended: a byalternatives turn that starts with an empty
\* Suggestion List and whose search finds a row seeds the list with the
\* rows found and ends with s_index = 0 and InformByName for the first
\* row; when the search finds nothing the list stays empty and the act is
\* InformByAlternatives with the primary key "none"; an offer at an index
\* greater than 0 is InformByAlternatives for the candidate at that index.
C21_FoundRowsSeedEmptyList ==
    /\ (ScrollTurn /\ before.current_suggestions = <<>> /\ Results # <<>>)
          => /\ current_suggestions = Results
             /\ s_index = 0
             /\ sys_act.type = "InformByName"
             /\ get_values(sys_act, domain_key) = <<Results[1][domain_key]>>
    /\ (ScrollTurn /\ before.current_suggestions = <<>> /\ Results = <<>>)
          => /\ current_suggestions = <<>>
             /\ sys_act.type = "InformByAlternatives"
             /\ get_values(sys_act, domain_key) = <<"none">>
    /\ (Offered /\ s_index > 0)
          => /\ sys_act.type = "InformByAlternatives"
             /\ get_values(sys_act, domain_key)
                   = <<current_suggestions[s_index + 1][domain_key]>>

C21_Witness ==
    /\ Offered
    /\ s_index = 1
    /\ Len(scrolled) = 2
    /\ scrolled[1].type = "InformByName"
    /\ scrolled[1].s_index = 0
    /\ scroll_base = 0
    /\ sys_act.type = "InformByAlternatives"

\* the last call ended in the Domain sub-machine with a Request for a slot
DomainRequest ==
    /\ Called
    /\ error = None
    /\ Taken = "Domain"
    /\ sys_act.type = "Request"
    /\ sys_act.slot_values # <<>>

\* C22: after a turn whose Domain sub-machine returns a Request with a
\* slot, system.lastRequestSlot is that slot; any other turn leaves
\* system.lastRequestSlot as it was.
C22_RequestSlotRecorded ==
    Called =>
        IF DomainRequest
        THEN belief_state.system.lastRequestSlot = sys_act.slot_values[1].slot
        ELSE belief_state.system.lastRequestSlot = before.system.lastRequestSlot

C22_Witness ==
    /\ DomainRequest
    /\ before.system.lastRequestSlot = "instructor"
    /\ belief_state.system.lastRequestSlot = "level"

\* C23: when the Domain sub-machine returns InformByName, the primary-key
\* slot of the act carries a value, an entity or "none", and
\* system.lastInformedPrimKeyVal is that value after the turn. Violated: a
\* byprimarykey turn without a requested slot and without a name returns
\* the slot without a value, and the "none" added for a turn without a
\* method is not recorded.
C23_InformedKeyRecorded ==
    (Called /\ error = None /\ Taken = "Domain" /\ sys_act.type = "InformByName")
        => /\ get_values(sys_act, domain_key) # <<>>
           /\ belief_state.system.lastInformedPrimKeyVal
                 = get_values(sys_act, domain_key)[1]

\* the name _get_name resolves in the state the last call began in
ResolvedName ==
    _get_name(domain_key, belief_state.beliefs,
              before.current_suggestions, before.s_index).name

\* C24: a turn that reaches the Domain sub-machine with the method
\* byprimarykey and no requested slot returns InformByName whose only slot
\* is the primary key with the name _get_name resolves, makes no lookup
\* and leaves the Suggestion List and s_index as they were. Violated: with
\* s_index = -1 on an empty list _get_name raises IndexError.
C24_PrimaryKeyEcho ==
    (Called /\ Taken = "Domain" /\ Method = "byprimarykey"
            /\ _get_requested_slots(belief_state.beliefs) = <<>>)
        => /\ error = None
           /\ sys_act.type = "InformByName"
           /\ sys_act.slot_values =
                 <<[slot |-> domain_key,
                    values |-> IF ResolvedName = None THEN <<>>
                               ELSE <<ResolvedName>>]>>
           /\ lookup = None
           /\ ListUnchanged

\* C25: a Request returned by the Domain sub-machine is for one slot, a
\* system-requestable slot that is neither constrained nor dontcare in the
\* belief state of the turn.
C25_RequestTargetsOpenSlot ==
    (Called /\ error = None /\ Taken = "Domain" /\ sys_act.type = "Request")
        => /\ Len(sys_act.slot_values) = 1
           /\ sys_act.slot_values[1].slot \in OpenSlots
           /\ sys_act.slot_values[1].values = <<>>

C25_Witness ==
    /\ DomainRequest
    /\ sys_act.slot_values[1].slot = "level"
    /\ Dontcare(domain_key, belief_state.beliefs) = <<"instructor">>
    /\ Len(Results) > 1

\* the user-given names of a belief state
UserNames(beliefs) ==
    Range(Active(beliefs[domain_key])) \ {NONE}

\* the cursor points to an entry of the Suggestion List
OnEntry == 0 <= s_index /\ s_index < Len(current_suggestions)

\* C26: in every state the turns reach, _get_name with the method
\* byprimarykey returns an active value of the primary-key slot other than
\* **NONE** when there is one, else the primary key of the entry at s_index
\* when the cursor points to an entry, else None. Violated: on an empty
\* list with s_index = -1 it raises IndexError.
C26_NameResolution ==
    \A beliefs \in EntityBeliefs(domain_key) :
        LET got == _get_name(domain_key, beliefs, current_suggestions, s_index)
        IN  /\ got.error = None
            /\ IF UserNames(beliefs) # {} THEN got.name \in UserNames(beliefs)
               ELSE IF OnEntry
               THEN got.name = current_suggestions[s_index + 1][domain_key]
               ELSE got.name = None

\* C27: in every state the turns reach s_index >= 0, and s_index is an
\* index of the Suggestion List when the list is not empty. Violated: a
\* byalternatives turn on an empty list whose search is empty leaves
\* s_index = -1.
C27_CursorIsValid ==
    /\ s_index >= 0
    /\ current_suggestions # <<>> => s_index <= Len(current_suggestions) - 1

\* C28: the entity offered by a byalternatives turn is one of the rows
\* find_entities returns for the constraints of that turn. Violated: a list
\* built for earlier constraints is scrolled on.
C28_OfferMatchesConstraints ==
    Offered =>
        \E k \in DOMAIN Results :
            get_values(sys_act, domain_key) = <<Results[k][domain_key]>>

\* the last call was resolved without an inform and without a Request of
\* the Domain sub-machine
ResolvedPlainly ==
    /\ Called
    /\ error = None
    /\ \/ Taken # "Domain"
       \/ Method = "none"
       \/ Method = "byalternatives" /\ TurnConstraints = <<>>

\* C29: a turn answered with Welcome, Bad (no input, a Bad act, the method
\* none, byalternatives without constraints), Bye, RequestMore or the
\* Request of the Greet branch leaves current_suggestions, s_index,
\* system.lastRequestSlot and system.lastInformedPrimKeyVal as they were.
C29_PlainTurnsKeepState ==
    ResolvedPlainly =>
        /\ sys_act.type \in {"Welcome", "Bad", "Bye", "RequestMore", "Request"}
        /\ ListUnchanged
        /\ belief_state.system.lastRequestSlot = before.system.lastRequestSlot
        /\ belief_state.system.lastInformedPrimKeyVal
              = before.system.lastInformedPrimKeyVal

C29_Witness ==
    /\ ResolvedPlainly
    /\ Taken = "Greet"
    /\ sys_act.type = "Request"
    /\ current_suggestions # <<>>
    /\ belief_state.system.lastRequestSlot # None
    /\ belief_state.system.lastRequestSlot # sys_act.slot_values[1].slot
    /\ belief_state.system.lastInformedPrimKeyVal # None

====
